---- MODULE Spec2Model ----
(***************************************************************************)
(* Model of rules/scripts/raxmlng_parser.py: the line-oriented extractors  *)
(* over a RAxML-NG log and the relative RF-distance wrapper.               *)
(*                                                                         *)
(* A text is a sequence of one-character strings, a log file a sequence of *)
(* lines.  A floating point value is the exact rational <<num, den>> in    *)
(* lowest terms (den > 0); negative infinity is <<-1, 0>>.  The outcome of *)
(* a call is [tag |-> "ok", val |-> v] or [tag |-> "raise", val |-> e],    *)
(* e naming the Python exception and what raised it.                       *)
(***************************************************************************)
EXTENDS Integers, Sequences, FiniteSets, TLC

VARIABLES content, res, warned, pc, fs, tmpdir, trees, args, outcome, calls

vars == <<content, res, warned, pc, fs, tmpdir, trees, args, outcome, calls>>

(***************************************************************************)
(* Bounds of the model.                                                    *)
(***************************************************************************)
MaxLlhLines == 3

MaxTimeLines == 2

MaxSprLines == 2

MaxParsLines == 2

MaxModelLines == 3

MaxAlignLines == 3

MaxCalls == 2

(***************************************************************************)
(* Outcomes and exceptions.                                                *)
(***************************************************************************)
Ok(v) == [tag |-> "ok", val |-> v]

Raise(e) == [tag |-> "raise", val |-> e]

NotCalled == [tag |-> "none", val |-> "none"]

\* "a, b = parts" with len(parts) # 2
UnpackError == "ValueError: wrong number of values to unpack"

\* float(s) on a text that is no float literal
FloatError == "ValueError: could not convert string to float"

\* int(s) on a text that is no integer literal
IntError == "ValueError: invalid literal for int()"

\* parts[k] with k beyond the list
IndexError == "IndexError: list index out of range"

\* raise ValueError("... does not contain the elapsed time.")
NoElapsedTime == "ValueError: does not contain the elapsed time"

\* raise ValueError("Error parsing raxml-ng log ", log_file)
ParseLogError == "ValueError: Error parsing raxml-ng log"

(***************************************************************************)
(* Python's str and number primitives the parser uses.                     *)
(***************************************************************************)
Whitespace == {" ", "\n", "\t"}

DigitChars == {"0", "1", "2", "3", "4", "5", "6", "7", "8", "9"}

DigitVal(c) ==
  CASE c = "0" -> 0 [] c = "1" -> 1 [] c = "2" -> 2 [] c = "3" -> 3
    [] c = "4" -> 4 [] c = "5" -> 5 [] c = "6" -> 6 [] c = "7" -> 7
    [] c = "8" -> 8 [] c = "9" -> 9

\* s[i:i+len(p)] == p, positions counted from 1
IsPrefixAt(p, s, i) ==
  /\ i + Len(p) - 1 <= Len(s)
  /\ \A k \in 1..Len(p) : s[i + k - 1] = p[k]

\* p in s
Contains(s, p) == \E i \in 1..(Len(s) - Len(p) + 1) : IsPrefixAt(p, s, i)

\* s.startswith(p)
StartsWith(s, p) == IsPrefixAt(p, s, 1)

RECURSIVE LStrip(_)
LStrip(s) ==
  IF s = <<>> THEN s
  ELSE IF Head(s) \in Whitespace THEN LStrip(Tail(s)) ELSE s

RECURSIVE RStrip(_)
RStrip(s) ==
  IF s = <<>> THEN s
  ELSE IF s[Len(s)] \in Whitespace THEN RStrip(SubSeq(s, 1, Len(s) - 1)) ELSE s

\* s.strip()
Strip(s) == RStrip(LStrip(s))

\* s.split(sep, n) for a one-character sep: at most n cuts, from the left
RECURSIVE SplitN(_, _, _)
SplitN(s, sep, n) ==
  IF n = 0 \/ ~(\E i \in 1..Len(s) : s[i] = sep) THEN <<s>>
  ELSE LET i == CHOOSE j \in 1..Len(s) :
                  s[j] = sep /\ \A k \in 1..(j - 1) : s[k] # sep
       IN  <<SubSeq(s, 1, i - 1)>> \o SplitN(SubSeq(s, i + 1, Len(s)), sep, n - 1)

\* s.split(sep): a cut at every sep, empty pieces kept
Split(s, sep) == SplitN(s, sep, Len(s))

AllDigits(s) == \A i \in 1..Len(s) : s[i] \in DigitChars

RECURSIVE NatOf(_)
NatOf(ds) ==
  IF ds = <<>> THEN 0
  ELSE NatOf(SubSeq(ds, 1, Len(ds) - 1)) * 10 + DigitVal(ds[Len(ds)])

RECURSIVE Pow10(_)
Pow10(n) == IF n = 0 THEN 1 ELSE 10 * Pow10(n - 1)

RECURSIVE Gcd(_, _)
Gcd(a, b) == IF b = 0 THEN a ELSE Gcd(b, a % b)

Abs(n) == IF n < 0 THEN -n ELSE n

\* the rational n/d (d > 0) in lowest terms
Rat(n, d) == LET g == Gcd(Abs(n), d) IN <<n \div g, d \div g>>

\* x / 100.0
Div100(x) == Rat(x[1], x[2] * 100)

\* -np.inf
NegInf == <<-1, 0>>

\* the sign and the unsigned rest of a stripped numeric literal
SignOf(t) == IF t # <<>> /\ Head(t) = "-" THEN -1 ELSE 1

Unsigned(t) == IF t # <<>> /\ Head(t) \in {"-", "+"} THEN Tail(t) ELSE t

\* int(s): surrounding whitespace, an optional sign, one or more digits
ParseInt(s) ==
  LET t == Strip(s)
      b == Unsigned(t)
  IN  IF b # <<>> /\ AllDigits(b) THEN Ok(SignOf(t) * NatOf(b)) ELSE Raise(IntError)

\* float(s): surrounding whitespace, an optional sign, digits with at most
\* one decimal point and a digit on one side of it at least (the exponent,
\* inf and nan forms take letters no numeric token of the logs has)
ParseFloat(s) ==
  LET t == Strip(s)
      b == Unsigned(t)
      p == Split(b, ".")
  IN  IF Len(p) = 1 /\ b # <<>> /\ AllDigits(b)
        THEN Ok(Rat(SignOf(t) * NatOf(b), 1))
      ELSE IF Len(p) = 2 /\ AllDigits(p[1]) /\ AllDigits(p[2]) /\ p[1] \o p[2] # <<>>
        THEN Ok(Rat(SignOf(t) * (NatOf(p[1]) * Pow10(Len(p[2])) + NatOf(p[2])),
                    Pow10(Len(p[2]))))
      ELSE Raise(FloatError)

\* utils.read_file_contents: the file as its ordered sequence of lines (the
\* lines of the logs below neither start nor end with whitespace, so a reader
\* that trims each line gives the same sequence)
ReadFileContents(file) == file

\* the positions of the lines of a log that contain a marker, in file order
MarkerLines(lines, marker) == {i \in 1..Len(lines) : Contains(lines[i], marker)}

Min(S) == CHOOSE x \in S : \A y \in S : x <= y

Max(S) == CHOOSE x \in S : \A y \in S : x >= y

\* all sequences over S of length at most n
SeqUpTo(S, n) == UNION {[1..k -> S] : k \in 0..n}

(***************************************************************************)
(* Markers of the log.                                                     *)
(***************************************************************************)
InitialBranchMarker == <<"I", "n", "i", "t", "i", "a", "l", " ", "b", "r", "a", "n", "c", "h", " ", "l", "e", "n", "g", "t", "h", " ", "o", "p", "t", "i", "m", "i", "z", "a", "t", "i", "o", "n">>

ElapsedMarker == <<"E", "l", "a", "p", "s", "e", "d", " ", "t", "i", "m", "e", ":">>

RestartsMarker == <<"r", "e", "s", "t", "a", "r", "t", "s">>

(***************************************************************************)
(* get_raxmlng_starting_llh                                                *)
(***************************************************************************)
\* lines 27-29: the value of one marker line
StartingLlhOfLine(line) ==
  LET byBracket == Split(line, "]")
  IN  IF Len(byBracket) # 2 THEN Raise(UnpackError)
      ELSE LET bySpace == Split(byBracket[1], " ")
           IN  IF Len(bySpace) # 2 THEN Raise(UnpackError)
               ELSE ParseFloat(bySpace[2])

\* TRUE when the call falls through to warnings.warn
StartingLlhWarns(file) == MarkerLines(ReadFileContents(file), InitialBranchMarker) = {}

\* the fallback turned into a failure
get_raxmlng_starting_llh_Raising(file) ==
  LET lines == ReadFileContents(file)
      hits  == MarkerLines(lines, InitialBranchMarker)
  IN  IF hits # {} THEN StartingLlhOfLine(lines[Min(hits)])
      ELSE Raise("ValueError: does not contain the starting llh")

get_raxmlng_starting_llh(file) ==
  LET lines == ReadFileContents(file)
      hits  == MarkerLines(lines, InitialBranchMarker)
  IN  IF hits # {} THEN StartingLlhOfLine(lines[Min(hits)]) ELSE Ok(NegInf)

(***************************************************************************)
(* get_raxmlng_time_from_line, get_raxmlng_elapsed_time,                   *)
(* get_raxmlng_runtimes                                                    *)
(***************************************************************************)
\* the restarted line read like the simple one: the value of this run
get_raxmlng_time_from_line_ThisRun(line) ==
  LET toks == Split(line, " ")
  IN  IF Len(toks) < 3 THEN Raise(IndexError) ELSE ParseFloat(toks[3])

get_raxmlng_time_from_line(line) ==
  IF Contains(line, RestartsMarker)
    THEN LET bySlash == Split(line, "/")
         IN  IF Len(bySlash) # 2 THEN Raise(UnpackError)
             ELSE LET toks == Split(bySlash[2], " ")
                  IN  IF Len(toks) < 2 THEN Raise(IndexError)
                      ELSE ParseFloat(toks[2])
    ELSE LET toks == Split(line, " ")
         IN  IF Len(toks) < 3 THEN Raise(IndexError) ELSE ParseFloat(toks[3])

get_raxmlng_elapsed_time(file) ==
  LET lines == ReadFileContents(file)
      hits  == MarkerLines(lines, ElapsedMarker)
  IN  IF hits # {} THEN get_raxmlng_time_from_line(lines[Min(hits)])
      ELSE Raise(NoElapsedTime)

\* the loop of lines 83-87 from line i on, all_times being acc
RECURSIVE RuntimesFrom(_, _, _)
RuntimesFrom(lines, i, acc) ==
  IF i > Len(lines) THEN Ok(acc)
  ELSE IF ~Contains(lines[i], ElapsedMarker) THEN RuntimesFrom(lines, i + 1, acc)
  ELSE LET t == get_raxmlng_time_from_line(lines[i])
       IN  IF t.tag = "raise" THEN t
           ELSE RuntimesFrom(lines, i + 1, Append(acc, t.val))

\* the scan stopped at the first marker line
get_raxmlng_runtimes_FirstOnly(file) ==
  LET t == get_raxmlng_elapsed_time(file)
  IN  IF t.tag = "raise" THEN t ELSE Ok(<<t.val>>)

get_raxmlng_runtimes(file) ==
  LET all == RuntimesFrom(ReadFileContents(file), 1, <<>>)
  IN  IF all.tag = "ok" /\ all.val = <<>> THEN Raise(NoElapsedTime) ELSE all

(***************************************************************************)
(* get_raxmlng_num_spr_rounds                                              *)
(***************************************************************************)
\* the first position from i on that holds no whitespace (Len(s) + 1 if none)
RECURSIVE SkipWs(_, _)
SkipWs(s, i) == IF i <= Len(s) /\ s[i] \in Whitespace THEN SkipWs(s, i + 1) ELSE i

\* the first position from i on that holds no digit
RECURSIVE SkipDigits(_, _)
SkipDigits(s, i) == IF i <= Len(s) /\ s[i] \in DigitChars THEN SkipDigits(s, i + 1) ELSE i

\* kw\s+spr\s+round\s+(\d+) matched at position i: the positions of the group
SprGroupAt(s, i, kw) ==
  LET a == i + Len(kw)
      b == SkipWs(s, a)
      c == b + 3
      d == SkipWs(s, c)
      e == d + 5
      f == SkipWs(s, e)
      g == SkipDigits(s, f)
  IN  IF /\ IsPrefixAt(kw, s, i)
         /\ b > a /\ IsPrefixAt(<<"s", "p", "r">>, s, b)
         /\ d > c /\ IsPrefixAt(<<"r", "o", "u", "n", "d">>, s, d)
         /\ f > e /\ g > f
        THEN <<f, g - 1>>
        ELSE <<>>

\* regex.search(kw\s+spr\s+round\s+(\d+), line): the leftmost match's group
\* as a number, or -1 for no match
SprSearch(line, kw) ==
  LET at == {i \in 1..Len(line) : SprGroupAt(line, i, kw) # <<>>}
  IN  IF at = {} THEN -1
      ELSE LET grp == SprGroupAt(line, Min(at), kw)
           IN  NatOf(SubSeq(line, grp[1], grp[2]))

\* the guard of lines 107 and 112
SprGuard(line, kw) == Contains(line, kw \o <<" ", "s", "p", "r", " ", "r", "o", "u", "n", "d">>)

\* max(cur, round) when the guard and the regex both hit, else cur
SprUpdate(cur, line, kw) ==
  IF SprGuard(line, kw) /\ SprSearch(line, kw) >= 0
    THEN (IF SprSearch(line, kw) > cur THEN SprSearch(line, kw) ELSE cur)
    ELSE cur

RECURSIVE SprFrom(_, _, _, _)
SprFrom(lines, i, slow, fast) ==
  IF i > Len(lines) THEN Ok(<<slow, fast>>)
  ELSE SprFrom(lines, i + 1, SprUpdate(slow, lines[i], <<"S", "L", "O", "W">>),
               SprUpdate(fast, lines[i], <<"F", "A", "S", "T">>))

get_raxmlng_num_spr_rounds(file) == SprFrom(ReadFileContents(file), 1, 0, 0)

(***************************************************************************)
(* get_all_parsimony_scores                                                *)
(***************************************************************************)
ParsimonyMarker == <<"P", "a", "r", "s", "i", "m", "o", "n", "y", " ", "s", "c", "o", "r", "e">>

\* the cut made at the first colon only
ParsimonyOfLine_FirstColon(line) ==
  LET parts == SplitN(line, ":", 1)
  IN  IF Len(parts) # 2 THEN Raise(UnpackError) ELSE ParseInt(Strip(parts[2]))

\* lines 172-173 on one marker line
ParsimonyOfLine(line) ==
  LET parts == Split(line, ":")
  IN  IF Len(parts) # 2 THEN Raise(UnpackError) ELSE ParseInt(Strip(parts[2]))

RECURSIVE ParsimonyFrom(_, _, _)
ParsimonyFrom(lines, i, scores) ==
  IF i > Len(lines) THEN Ok(scores)
  ELSE IF ~Contains(lines[i], ParsimonyMarker) THEN ParsimonyFrom(lines, i + 1, scores)
  ELSE LET s == ParsimonyOfLine(lines[i])
       IN  IF s.tag = "raise" THEN s
           ELSE ParsimonyFrom(lines, i + 1, Append(scores, s.val))

get_all_parsimony_scores(file) == ParsimonyFrom(ReadFileContents(file), 1, <<>>)

(***************************************************************************)
(* get_model_parameter_estimates                                           *)
(***************************************************************************)
RateHetMarker == <<"R", "a", "t", "e", " ", "h", "e", "t", "e", "r", "o", "g", "e", "n", "e", "i", "t", "y">>

BaseFreqMarker == <<"B", "a", "s", "e", " ", "f", "r", "e", "q", "u", "e", "n", "c", "i", "e", "s">>

SubstRatesMarker == <<"S", "u", "b", "s", "t", "i", "t", "u", "t", "i", "o", "n", " ", "r", "a", "t", "e", "s">>

\* None and a str
None == [some |-> FALSE, str |-> <<>>]

Some(s) == [some |-> TRUE, str |-> s]

\* the first occurrence of a category kept
ModelUpdate_KeepFirst(cur, line, marker) ==
  IF ~StartsWith(line, marker) \/ cur.some THEN Ok(cur)
  ELSE LET parts == SplitN(line, ":", 1)
       IN  IF Len(parts) # 2 THEN Raise(UnpackError) ELSE Ok(Some(Strip(parts[2])))

\* "_, res = line.split(":", 1)" then res.strip(), when the line starts with
\* the marker; cur when it does not
ModelUpdate(cur, line, marker) ==
  IF ~StartsWith(line, marker) THEN Ok(cur)
  ELSE LET parts == SplitN(line, ":", 1)
       IN  IF Len(parts) # 2 THEN Raise(UnpackError) ELSE Ok(Some(Strip(parts[2])))

RECURSIVE ModelFrom(_, _, _, _, _)
ModelFrom(lines, i, rate_het, base_freq, subst_rates) ==
  IF i > Len(lines) THEN Ok(<<rate_het, base_freq, subst_rates>>)
  ELSE LET r == ModelUpdate(rate_het, lines[i], RateHetMarker)
           b == ModelUpdate(base_freq, lines[i], BaseFreqMarker)
           s == ModelUpdate(subst_rates, lines[i], SubstRatesMarker)
       IN  IF r.tag = "raise" THEN r
           ELSE IF b.tag = "raise" THEN b
           ELSE IF s.tag = "raise" THEN s
           ELSE ModelFrom(lines, i + 1, r.val, b.val, s.val)

get_model_parameter_estimates(file) ==
  ModelFrom(ReadFileContents(file), 1, None, None, None)

(***************************************************************************)
(* get_patterns_gaps_invariant                                             *)
(***************************************************************************)
AlignmentMarker == <<"A", "l", "i", "g", "n", "m", "e", "n", "t", " ", "s", "i", "t", "e", "s">>

GapsMarker == <<"G", "a", "p", "s">>

InvariantMarker == <<"I", "n", "v", "a", "r", "i", "a", "n", "t", " ", "s", "i", "t", "e", "s">>

\* open(log_file).readlines(): every line with its terminator
ReadLines(file) == [i \in 1..Len(file) |-> file[i] \o <<"\n">>]

\* None and a number
NoValue == [set |-> FALSE, num |-> 0]

Value(x) == [set |-> TRUE, num |-> x]

\* [int(el) for el in parts]: the first failure, or the list
RECURSIVE IntsOf(_, _, _)
IntsOf(parts, i, acc) ==
  IF i > Len(parts) THEN Ok(acc)
  ELSE LET n == ParseInt(parts[i])
       IN  IF n.tag = "raise" THEN n ELSE IntsOf(parts, i + 1, Append(acc, n.val))

\* lines 187-188
PatternsOfLine(line) ==
  LET byColon == Split(line, ":")
  IN  IF Len(byColon) # 2 THEN Raise(UnpackError)
      ELSE LET ints == IntsOf(Split(byColon[2], "/"), 1, <<>>)
           IN  IF ints.tag = "raise" THEN ints
               ELSE IF Len(ints.val) # 2 THEN Raise(UnpackError)
               ELSE Ok(ints.val[2])

\* the percentage returned as it is written
ProportionOfLine_Percent(line) ==
  LET byColon == Split(line, ":")
  IN  IF Len(byColon) # 2 THEN Raise(UnpackError)
      ELSE LET toks == Split(Strip(byColon[2]), " ")
           IN  IF Len(toks) # 2 THEN Raise(UnpackError) ELSE ParseFloat(toks[1])

\* lines 191-193 and 196-198
ProportionOfLine(line) ==
  LET byColon == Split(line, ":")
  IN  IF Len(byColon) # 2 THEN Raise(UnpackError)
      ELSE LET toks == Split(Strip(byColon[2]), " ")
           IN  IF Len(toks) # 2 THEN Raise(UnpackError)
               ELSE LET pct == ParseFloat(toks[1])
                    IN  IF pct.tag = "raise" THEN pct ELSE Ok(Div100(pct.val))

\* the failure only when all three are missing
AlignmentResult_AllMissing(patterns, gaps, invariant) ==
  IF ~patterns.set /\ ~gaps.set /\ ~invariant.set THEN Raise(ParseLogError)
  ELSE Ok(<<patterns.num, gaps.num, invariant.num>>)

\* the check of lines 200-203
AlignmentResult(patterns, gaps, invariant) ==
  IF ~patterns.set \/ ~gaps.set \/ ~invariant.set THEN Raise(ParseLogError)
  ELSE Ok(<<patterns.num, gaps.num, invariant.num>>)

RECURSIVE AlignmentFrom(_, _, _, _, _)
AlignmentFrom(lines, i, patterns, gaps, invariant) ==
  IF i > Len(lines) THEN AlignmentResult(patterns, gaps, invariant)
  ELSE IF StartsWith(lines[i], AlignmentMarker)
    THEN LET p == PatternsOfLine(lines[i])
         IN  IF p.tag = "raise" THEN p
             ELSE AlignmentFrom(lines, i + 1, Value(p.val), gaps, invariant)
  ELSE IF StartsWith(lines[i], GapsMarker)
    THEN LET g == ProportionOfLine(lines[i])
         IN  IF g.tag = "raise" THEN g
             ELSE AlignmentFrom(lines, i + 1, patterns, Value(g.val), invariant)
  ELSE IF StartsWith(lines[i], InvariantMarker)
    THEN LET v == ProportionOfLine(lines[i])
         IN  IF v.tag = "raise" THEN v
             ELSE AlignmentFrom(lines, i + 1, patterns, gaps, Value(v.val))
  ELSE AlignmentFrom(lines, i + 1, patterns, gaps, invariant)

get_patterns_gaps_invariant(file) ==
  AlignmentFrom(ReadLines(file), 1, NoValue, NoValue, NoValue)

(***************************************************************************)
(* rel_rfdistance_starting_final.  A path is the sequence of its           *)
(* components, the file system the set of its entries.                     *)
(***************************************************************************)
\* tempfile.gettempdir()
TmpRoot == <<"tmp">>

\* the names mkdtemp may draw
TmpNames == {"tmpa", "tmpb", "tmpc"}

\* path + suffix: the text is appended to the last component
PathPlus(path, suffix) ==
  [path EXCEPT ![Len(path)] = path[Len(path)] \o suffix]

\* TRUE for dir itself and for every path below it
Within(path, dir) ==
  /\ Len(path) >= Len(dir)
  /\ SubSeq(path, 1, Len(dir)) = dir

Exists(files, path) == \E e \in files : e.path = path

\* open(path, "w") then write(data): the file is created or truncated
WriteFile(files, path, data) ==
  {e \in files : e.path # path} \cup {[path |-> path, kind |-> "file", data |-> data]}

\* TemporaryDirectory.cleanup: rmtree of the directory
RmTree(files, dir) == {e \in files : ~Within(e.path, dir)}

\* line 130: what is written to the tree-pair file
TreePair(newick_starting, newick_final) ==
  Strip(newick_starting) \o <<"\n">> \o Strip(newick_final)

Newicks == { <<"(", "a", ",", "b", ")", ";">>, <<" ", "(", "a", ",", "b", ")", ";", "\n">>, <<"(", "b", ",", "a", ")", ";">> }

\* the triples get_rfdistance_results may return: (absolute, relative, third)
ToolResults == { <<0, <<0, 1>>, 0>>, <<2, <<1, 1>>, 1>> }

(***************************************************************************)
(* The logs the extractors are run on.                                     *)
(***************************************************************************)
\* numeric tokens with the value each stands for
Numbers ==
  { [txt |-> <<"5", ".", "5">>,  val |-> <<11, 2>>],
    [txt |-> <<"7">>,    val |-> <<7, 1>>],
    [txt |-> <<"9", ".", "2", "5">>, val |-> <<37, 4>>],
    [txt |-> <<"-", "8", ".", "5">>, val |-> <<-17, 2>>] }

\* "[<timestamp> <llh>] Initial branch length optimization"
LlhLine(llh) == <<"[", "0", "0", ":", "0", "0", ":", "0", "0", " ">> \o llh \o <<"]", " ">> \o InitialBranchMarker

LlhLines ==
  { LlhLine(n.txt) : n \in Numbers } \cup
  { <<"F", "i", "n", "a", "l", " ", "L", "o", "g", "L", "i", "k", "e", "l", "i", "h", "o", "o", "d", ":", " ", "-", "8", ".", "5">>,
    InitialBranchMarker,
    <<"[", "0", "0", ":", "0", "0", ":", "0", "0", " ", "-", "8", ".", "5", "]", " ">> \o InitialBranchMarker \o <<" ", "[", "d", "o", "n", "e", "]">>,
    <<"[", "0", "0", ":", "0", "0", ":", "0", "0", " ", "x", "]", " ">> \o InitialBranchMarker }

\* "Elapsed time: <s> seconds"
SimpleLine(s) == ElapsedMarker \o <<" ">> \o s \o <<" ", "s", "e", "c", "o", "n", "d", "s">>

\* "Elapsed time: <run> seconds (this run) / <total> seconds (total with restarts)"
RestartLine(run, total) ==
  ElapsedMarker \o <<" ">> \o run \o <<" ", "s", "e", "c", "o", "n", "d", "s", " ", "(", "t", "h", "i", "s", " ", "r", "u", "n", ")", " ", "/", " ">> \o total
    \o <<" ", "s", "e", "c", "o", "n", "d", "s", " ", "(", "t", "o", "t", "a", "l", " ", "w", "i", "t", "h", " ", "r", "e", "s", "t", "a", "r", "t", "s", ")">>

TimeNumbers == {n \in Numbers : n.val[1] > 0}

TimeLines ==
  { SimpleLine(n.txt) : n \in TimeNumbers } \cup
  { RestartLine(<<"5", ".", "5">>, <<"9", ".", "2", "5">>), RestartLine(<<"7">>, <<"5", ".", "5">>) } \cup
  { <<"F", "i", "n", "a", "l", " ", "L", "o", "g", "L", "i", "k", "e", "l", "i", "h", "o", "o", "d", ":", " ", "-", "8", ".", "5">>,
    <<"1", " ", "2", " ", "3", " ">> \o SimpleLine(<<"7">>),
    <<"[", "0", "0", ":", "0", "1", "]", " ">> \o SimpleLine(<<"7">>),
    <<"4", " ", "/", " ", "3", " ", "E", "l", "a", "p", "s", "e", "d", " ", "t", "i", "m", "e", ":", " ", "7", " ", "s", "e", "c", "o", "n", "d", "s", " ", "(", "n", "o", " ", "r", "e", "s", "t", "a", "r", "t", "s", ")">>,
    ElapsedMarker \o <<" ", "5", ".", "5", " ", "s", "e", "c", "o", "n", "d", "s", " ", "(", "t", "h", "i", "s", " ", "r", "u", "n", ")", " ", "9", ".", "2", "5", " ", "s", "e", "c", "o", "n", "d", "s", " ", "(", "t", "o", "t", "a", "l", " ", "w", "i", "t", "h", " ", "r", "e", "s", "t", "a", "r", "t", "s", ")">>,
    ElapsedMarker \o <<" ", "5", ".", "5", " ", "s", "e", "c", "o", "n", "d", "s", " ", "/", " ", "7", " ", "s", "e", "c", "o", "n", "d", "s", " ", "/", " ", "9", ".", "2", "5", " ", "s", "e", "c", "o", "n", "d", "s", " ", "(", "t", "o", "t", "a", "l", " ", "w", "i", "t", "h", " ", "r", "e", "s", "t", "a", "r", "t", "s", ")">>,
    ElapsedMarker,
    ElapsedMarker \o <<" ", " ", "7", " ", "s", "e", "c", "o", "n", "d", "s">> }

SprLines ==
  { <<"S", "L", "O", "W", " ", "s", "p", "r", " ", "r", "o", "u", "n", "d", " ", "3">>,
    <<"F", "A", "S", "T", " ", "s", "p", "r", " ", "r", "o", "u", "n", "d", " ", "1">>,
    <<"F", "A", "S", "T", " ", "s", "p", "r", " ", "r", "o", "u", "n", "d", " ", "5">>,
    <<"S", "L", "O", "W", " ", "s", "p", "r", " ", "r", "o", "u", "n", "d", " ", "1", "0">>,
    <<"S", "L", "O", "W", " ", " ", "s", "p", "r", " ", "r", "o", "u", "n", "d", " ", "7">>,
    <<"F", "A", "S", "T", " ", "s", "p", "r", "\t", "r", "o", "u", "n", "d", " ", "8">>,
    <<"s", "l", "o", "w", " ", "s", "p", "r", " ", "r", "o", "u", "n", "d", " ", "9">>,
    <<"S", "L", "O", "W", " ", "s", "p", "r", " ", "r", "o", "u", "n", "d", " ", "x">>,
    <<"[", "0", "0", ":", "0", "1", "]", " ", "F", "A", "S", "T", " ", "s", "p", "r", " ", "r", "o", "u", "n", "d", " ", "2", " ", "(", "r", "a", "d", "i", "u", "s", ":", " ", "5", ")">>,
    <<"E", "l", "a", "p", "s", "e", "d", " ", "t", "i", "m", "e", ":", " ", "7", " ", "s", "e", "c", "o", "n", "d", "s">> }

\* integer tokens with the value each stands for
Scores ==
  { [txt |-> <<"1", "2", "3">>, val |-> 123],
    [txt |-> <<"4", "5">>,  val |-> 45],
    [txt |-> <<"-", "4">>,  val |-> -4] }

\* "Parsimony score: <n>"
ScoreLine(n) == ParsimonyMarker \o <<":", " ">> \o n

ParsLines ==
  { ScoreLine(n.txt) : n \in Scores } \cup
  { <<"[", "0", "0", ":", "0", "1", "]", " ", "P", "a", "r", "s", "i", "m", "o", "n", "y", " ", "s", "c", "o", "r", "e", ":", " ", "7">>,
    <<"P", "a", "r", "s", "i", "m", "o", "n", "y", " ", "s", "c", "o", "r", "e", ":", " ", "7", " ", "(", "t", "r", "e", "e", " ", "1", ":", " ", "d", "o", "n", "e", ")">>,
    <<"P", "a", "r", "s", "i", "m", "o", "n", "y", " ", "s", "c", "o", "r", "e", " ", "9">>,
    <<"P", "a", "r", "s", "i", "m", "o", "n", "y", " ", "s", "c", "o", "r", "e", ":", " ", "x">>,
    <<"E", "l", "a", "p", "s", "e", "d", " ", "t", "i", "m", "e", ":", " ", "7", " ", "s", "e", "c", "o", "n", "d", "s">> }

\* the model-parameter lines: the text, the category it belongs to and the
\* estimate it stands for
ModelEntries ==
  { [txt |-> <<"R", "a", "t", "e", " ", "h", "e", "t", "e", "r", "o", "g", "e", "n", "e", "i", "t", "y", ":", " ", "N", "O", "N", "E">>, cat |-> 1, est |-> <<"N", "O", "N", "E">>],
    [txt |-> <<"R", "a", "t", "e", " ", "h", "e", "t", "e", "r", "o", "g", "e", "n", "e", "i", "t", "y", ":", " ", " ", "G", "A", "M", "M", "A", " ", "(", "4", " ", "c", "a", "t", "s", ")", ",", " ", "a", "l", "p", "h", "a", ":", " ", "0", ".", "5">>,
     cat |-> 1, est |-> <<"G", "A", "M", "M", "A", " ", "(", "4", " ", "c", "a", "t", "s", ")", ",", " ", "a", "l", "p", "h", "a", ":", " ", "0", ".", "5">>],
    [txt |-> <<"B", "a", "s", "e", " ", "f", "r", "e", "q", "u", "e", "n", "c", "i", "e", "s", " ", "(", "M", "L", ")", ":", " ", "0", ".", "2", " ", "0", ".", "3">>,
     cat |-> 2, est |-> <<"0", ".", "2", " ", "0", ".", "3">>],
    [txt |-> <<"B", "a", "s", "e", " ", "f", "r", "e", "q", "u", "e", "n", "c", "i", "e", "s", ":">>,  cat |-> 2, est |-> <<>>],
    [txt |-> <<"S", "u", "b", "s", "t", "i", "t", "u", "t", "i", "o", "n", " ", "r", "a", "t", "e", "s", " ", "(", "M", "L", ")", ":", " ", "1", ".", "5", " ", "2", ".", "0">>,
     cat |-> 3, est |-> <<"1", ".", "5", " ", "2", ".", "0">>],
    [txt |-> <<"S", "u", "b", "s", "t", "i", "t", "u", "t", "i", "o", "n", " ", "r", "a", "t", "e", "s", ":", " ", "7">>,  cat |-> 3, est |-> <<"7">>] }

ModelMarkers == <<RateHetMarker, BaseFreqMarker, SubstRatesMarker>>

ModelLines ==
  { e.txt : e \in ModelEntries } \cup
  { <<"R", "a", "t", "e", " ", "h", "e", "t", "e", "r", "o", "g", "e", "n", "e", "i", "t", "y", " ", "N", "O", "N", "E">>,
    <<"M", "o", "d", "e", "l", ":", " ", "R", "a", "t", "e", " ", "h", "e", "t", "e", "r", "o", "g", "e", "n", "e", "i", "t", "y", ":", " ", "N", "O", "N", "E">>,
    <<"E", "l", "a", "p", "s", "e", "d", " ", "t", "i", "m", "e", ":", " ", "7", " ", "s", "e", "c", "o", "n", "d", "s">> }

\* "Alignment sites / patterns: <sites> / <patterns>"
SitesLine(sites, patterns) ==
  AlignmentMarker \o <<" ", "/", " ", "p", "a", "t", "t", "e", "r", "n", "s", ":", " ">> \o sites \o <<" ", "/", " ">> \o patterns

\* "<marker>: <pct> %", the percent sign a token of its own
SpacedPctLine(marker, pct) == marker \o <<":", " ">> \o pct \o <<" ", "%">>

\* "<marker>: <pct>% ...", the percent sign attached to the number
AttachedPctLine(marker, pct) == marker \o <<":", " ">> \o pct \o <<"%", " ", ".", ".", ".">>

\* pattern counts and percentages with the value each stands for
Patterns ==
  { [txt |-> <<"9", "3", "3">>, val |-> 933],
    [txt |-> <<"7">>,   val |-> 7] }

Percents ==
  { [txt |-> <<"1", "2", ".", "5">>, val |-> <<1, 8>>],
    [txt |-> <<"4", "0", ".", "0">>, val |-> <<2, 5>>] }

AlignLines ==
  { SitesLine(<<"1", "9", "4", "0">>, <<"9", "3", "3">>), SitesLine(<<"2", "0">>, <<"7">>) } \cup
  { SpacedPctLine(GapsMarker, <<"1", "2", ".", "5">>), SpacedPctLine(InvariantMarker, <<"4", "0", ".", "0">>),
    SpacedPctLine(InvariantMarker, <<"1", "2", ".", "5">>) } \cup
  { AttachedPctLine(GapsMarker, <<"1", "2", ".", "5">>), AttachedPctLine(InvariantMarker, <<"4", "0", ".", "0">>) } \cup
  { <<"N", "u", "m", "b", "e", "r", " ", "o", "f", " ", "g", "a", "p", "s", ":", " ", "1", "2", ".", "5", " ", "%">>,
    <<"E", "l", "a", "p", "s", "e", "d", " ", "t", "i", "m", "e", ":", " ", "7", " ", "s", "e", "c", "o", "n", "d", "s">> }

(***************************************************************************)
(* The state machine.  content is the log file, res[op] the outcome of     *)
(* the call of extractor op on it (NotCalled before), warned the messages  *)
(* given to warnings.warn.  For rel_rfdistance_starting_final: pc is the   *)
(* position in the call, fs the file system, tmpdir and trees the paths of *)
(* the locals of that name, args the two trees, outcome what the last call *)
(* gave the caller, calls the number of calls made.                        *)
(***************************************************************************)
Ops == {"StartingLogLikelihood", "ElapsedTime", "AllRuntimes", "SprRoundCounts",
        "ParsimonyScores", "ModelParameterEstimates", "AlignmentStats"}

InitRF ==
  /\ pc = "idle"
  /\ fs = {}
  /\ tmpdir = <<>>
  /\ trees = <<>>
  /\ args = <<>>
  /\ outcome = NotCalled
  /\ calls = 0

InitLog(lines, n) ==
  /\ content \in SeqUpTo(lines, n)
  /\ res = [op \in Ops |-> NotCalled]
  /\ warned = <<>>
  /\ InitRF

RFUnchanged == UNCHANGED <<pc, fs, tmpdir, trees, args, outcome, calls>>

LogUnchanged == UNCHANGED <<content, res, warned>>

Called(op) == res[op].tag # "none"

StartingLogLikelihood ==
  /\ ~Called("StartingLogLikelihood")
  /\ res' = [res EXCEPT !["StartingLogLikelihood"] = get_raxmlng_starting_llh(content)]
  /\ warned' = IF StartingLlhWarns(content)
                 THEN Append(warned, "The given file does not contain the starting llh")
                 ELSE warned
  /\ UNCHANGED content
  /\ RFUnchanged

ElapsedTime ==
  /\ ~Called("ElapsedTime")
  /\ res' = [res EXCEPT !["ElapsedTime"] = get_raxmlng_elapsed_time(content)]
  /\ UNCHANGED <<content, warned>>
  /\ RFUnchanged

AllRuntimes ==
  /\ ~Called("AllRuntimes")
  /\ res' = [res EXCEPT !["AllRuntimes"] = get_raxmlng_runtimes(content)]
  /\ UNCHANGED <<content, warned>>
  /\ RFUnchanged

SprRoundCounts ==
  /\ ~Called("SprRoundCounts")
  /\ res' = [res EXCEPT !["SprRoundCounts"] = get_raxmlng_num_spr_rounds(content)]
  /\ UNCHANGED <<content, warned>>
  /\ RFUnchanged

ParsimonyScores ==
  /\ ~Called("ParsimonyScores")
  /\ res' = [res EXCEPT !["ParsimonyScores"] = get_all_parsimony_scores(content)]
  /\ UNCHANGED <<content, warned>>
  /\ RFUnchanged

ModelParameterEstimates ==
  /\ ~Called("ModelParameterEstimates")
  /\ res' = [res EXCEPT !["ModelParameterEstimates"] =
                          get_model_parameter_estimates(content)]
  /\ UNCHANGED <<content, warned>>
  /\ RFUnchanged

AlignmentStats ==
  /\ ~Called("AlignmentStats")
  /\ res' = [res EXCEPT !["AlignmentStats"] = get_patterns_gaps_invariant(content)]
  /\ UNCHANGED <<content, warned>>
  /\ RFUnchanged

\* the call of rel_rfdistance_starting_final with two trees
CallRF ==
  /\ pc = "idle"
  /\ calls < MaxCalls
  /\ \E s \in Newicks, f \in Newicks : args' = <<s, f>>
  /\ calls' = calls + 1
  /\ pc' = "enter"
  /\ UNCHANGED <<fs, tmpdir, trees, outcome>>
  /\ LogUnchanged

\* line 126: TemporaryDirectory() makes a directory of a name not in use
EnterTemporaryDirectory ==
  /\ pc = "enter"
  /\ \E name \in TmpNames :
       /\ ~Exists(fs, TmpRoot \o <<name>>)
       /\ tmpdir' = TmpRoot \o <<name>>
       /\ fs' = fs \cup {[path |-> TmpRoot \o <<name>>, kind |-> "dir", data |-> <<>>]}
  /\ pc' = "stage"
  /\ UNCHANGED <<trees, args, outcome, calls>>
  /\ LogUnchanged

\* lines 128-130: the tree-pair file
StageTrees ==
  /\ pc = "stage"
  /\ trees' = PathPlus(tmpdir, ".trees")
  /\ fs' = WriteFile(fs, PathPlus(tmpdir, ".trees"), TreePair(args[1], args[2]))
  /\ pc' = "tool"
  /\ UNCHANGED <<tmpdir, args, outcome, calls>>
  /\ LogUnchanged

\* line 132: the tool returns its triple, of which line 134 returns the second
ToolReturns ==
  /\ pc = "tool"
  /\ \E t \in ToolResults : outcome' = Ok(t[2])
  /\ pc' = "exit"
  /\ UNCHANGED <<fs, tmpdir, trees, args, calls>>
  /\ LogUnchanged

\* line 132: the tool invocation raises
ToolRaises ==
  /\ pc = "tool"
  /\ outcome' = Raise("RuntimeError: raxml-ng failed")
  /\ pc' = "exit"
  /\ UNCHANGED <<fs, tmpdir, trees, args, calls>>
  /\ LogUnchanged

\* leaving the with block of line 126, by return or by exception
ExitTemporaryDirectory ==
  /\ pc = "exit"
  /\ fs' = RmTree(fs, tmpdir)
  /\ pc' = "idle"
  /\ UNCHANGED <<tmpdir, trees, args, outcome, calls>>
  /\ LogUnchanged

InitLlh == InitLog(LlhLines, MaxLlhLines)

NextLlh == StartingLogLikelihood

SpecLlh == InitLlh /\ [][NextLlh]_vars

InitTime == InitLog(TimeLines, MaxTimeLines)

NextTime == ElapsedTime \/ AllRuntimes

SpecTime == InitTime /\ [][NextTime]_vars

InitSpr == InitLog(SprLines, MaxSprLines)

NextSpr == SprRoundCounts

SpecSpr == InitSpr /\ [][NextSpr]_vars

InitPars == InitLog(ParsLines, MaxParsLines)

NextPars == ParsimonyScores

SpecPars == InitPars /\ [][NextPars]_vars

InitModel == InitLog(ModelLines, MaxModelLines)

NextModel == ModelParameterEstimates

SpecModel == InitModel /\ [][NextModel]_vars

InitAlign == InitLog(AlignLines, MaxAlignLines)

NextAlign == AlignmentStats

SpecAlign == InitAlign /\ [][NextAlign]_vars

InitFs ==
  /\ content = <<>>
  /\ res = [op \in Ops |-> NotCalled]
  /\ warned = <<>>
  /\ InitRF

NextRF ==
  \/ CallRF
  \/ EnterTemporaryDirectory
  \/ StageTrees
  \/ ToolReturns
  \/ ToolRaises
  \/ ExitTemporaryDirectory

SpecRF == InitFs /\ [][NextRF]_vars

(***************************************************************************)
(* The properties.                                                         *)
(***************************************************************************)
Returned(r, v) == r.tag = "ok" /\ r.val = v

Raised(r, e) == r.tag = "raise" /\ r.val = e

\* the k-th smallest element of a set of positions
Nth(S, k) == CHOOSE i \in S : Cardinality({j \in S : j <= i}) = k

\* the positions of the lines that start with a marker
StartLines(lines, marker) == {i \in 1..Len(lines) : StartsWith(lines[i], marker)}

\* C1: after any call of rel_rfdistance_starting_final, by return or by an
\* exception of the tool, nothing the call created exists any more.
NothingLeftAfterCall == pc = "idle" => fs = {}

\* the shapes of the alignment-statistics lines
SitesShaped(line) ==
  \E s \in {<<"1", "9", "4", "0">>, <<"2", "0">>}, p \in Patterns : line = SitesLine(s, p.txt)

PatternsOn(line) ==
  (CHOOSE p \in Patterns : \E s \in {<<"1", "9", "4", "0">>, <<"2", "0">>} : line = SitesLine(s, p.txt)).val

SpacedShaped(line, marker) == \E q \in Percents : line = SpacedPctLine(marker, q.txt)

AttachedShaped(line, marker) == \E q \in Percents : line = AttachedPctLine(marker, q.txt)

SpacedOn(line, marker) ==
  (CHOOSE q \in Percents : line = SpacedPctLine(marker, q.txt)).val

AttachedOn(line, marker) ==
  (CHOOSE q \in Percents : line = AttachedPctLine(marker, q.txt)).val

AllThreePresent ==
  \A m \in {AlignmentMarker, GapsMarker, InvariantMarker} : StartLines(content, m) # {}

ElapsedTimeOfFirstMarkerLine ==
  Called("ElapsedTime") =>
    LET hits == MarkerLines(content, ElapsedMarker)
        r    == res["ElapsedTime"]
    IN  /\ hits = {} => Raised(r, NoElapsedTime)
        /\ hits # {} =>
             /\ \A n \in TimeNumbers :
                  content[Min(hits)] = SimpleLine(n.txt) => Returned(r, n.val)
             /\ \A run \in TimeNumbers, total \in TimeNumbers :
                  content[Min(hits)] = RestartLine(run.txt, total.txt) =>
                    /\ Returned(r, total.val)
                    /\ run.val # total.val => ~Returned(r, run.val)

ElapsedTimeWitness ==
  /\ content = << <<"F", "i", "n", "a", "l", " ", "L", "o", "g", "L", "i", "k", "e", "l", "i", "h", "o", "o", "d", ":", " ", "-", "8", ".", "5">>, RestartLine(<<"5", ".", "5">>, <<"9", ".", "2", "5">>) >>
  /\ Returned(res["ElapsedTime"], <<37, 4>>)

\* C4: StartingLogLikelihood returns the value after the timestamp inside the
\* brackets of the first "Initial branch length optimization" line; with no
\* such line it warns, returns negative infinity and does not raise.
StartingLlhValueOrNegInf ==
  Called("StartingLogLikelihood") =>
    LET hits == MarkerLines(content, InitialBranchMarker)
        r    == res["StartingLogLikelihood"]
    IN  /\ hits = {} => Returned(r, NegInf) /\ Len(warned) = 1
        /\ hits # {} =>
             /\ warned = <<>>
             /\ \A n \in Numbers :
                  content[Min(hits)] = LlhLine(n.txt) => Returned(r, n.val)

StartingLlhFallbackWitness ==
  /\ content = << <<"F", "i", "n", "a", "l", " ", "L", "o", "g", "L", "i", "k", "e", "l", "i", "h", "o", "o", "d", ":", " ", "-", "8", ".", "5">> >>
  /\ Returned(res["StartingLogLikelihood"], NegInf)
  /\ warned # <<>>

\* C5: when no line starts with one of the three alignment markers,
\* AlignmentStats raises, whatever the other lines are and in whatever order.
MissingMarkerRaises ==
  (Called("AlignmentStats") /\ ~AllThreePresent) => res["AlignmentStats"].tag = "raise"

MissingMarkerWitness ==
  /\ content = << SpacedPctLine(GapsMarker, <<"1", "2", ".", "5">>), <<"E", "l", "a", "p", "s", "e", "d", " ", "t", "i", "m", "e", ":", " ", "7", " ", "s", "e", "c", "o", "n", "d", "s">>,
                  SitesLine(<<"1", "9", "4", "0">>, <<"9", "3", "3">>) >>
  /\ Raised(res["AlignmentStats"], ParseLogError)

\* the greatest <n> over the lines the pattern kw\s+spr\s+round\s+(\d+) matches
MaxRound(kw) == Max({0} \cup {SprSearch(content[i], kw) : i \in 1..Len(content)})

\* C6: SprRoundCounts returns (slow, fast), each the maximum <n> over the lines
\* matching "SLOW spr round <n>" / "FAST spr round <n>" with any non-empty run
\* of whitespace between the words, 0 when no line matches.
SprCountsAreMaxOverMatches ==
  Called("SprRoundCounts") =>
    Returned(res["SprRoundCounts"], <<MaxRound(<<"S", "L", "O", "W">>), MaxRound(<<"F", "A", "S", "T">>)>>)

\* the scores read by a cut at the first colon only
FirstColonOfLine(line) ==
  LET parts == SplitN(line, ":", 1)
  IN  IF Len(parts) # 2 THEN Raise(UnpackError) ELSE ParseInt(Strip(parts[2]))

RECURSIVE FirstColonFrom(_, _, _)
FirstColonFrom(lines, i, scores) ==
  IF i > Len(lines) THEN Ok(scores)
  ELSE IF ~Contains(lines[i], ParsimonyMarker) THEN FirstColonFrom(lines, i + 1, scores)
  ELSE LET s == FirstColonOfLine(lines[i])
       IN  IF s.tag = "raise" THEN s
           ELSE FirstColonFrom(lines, i + 1, Append(scores, s.val))

\* C7 as stated: ParsimonyScores gives what a cut of every marker line at its
\* first colon only and int() of the remainder give, a line with several
\* colons not being rejected for having several.
ScoresByFirstColon ==
  Called("ParsimonyScores") => res["ParsimonyScores"] = FirstColonFrom(content, 1, <<>>)

ScoreShaped(line) == \E n \in Scores : line = ScoreLine(n.txt)

ScoreOn(line) == (CHOOSE n \in Scores : line = ScoreLine(n.txt)).val

Colons(line) == Cardinality({k \in 1..Len(line) : line[k] = ":"})

\* C7 as amended: ParsimonyScores returns, in file order, one integer for
\* every line containing "Parsimony score", the text after the only colon of
\* the line; a marker line that has not exactly one colon is rejected for
\* that (the unpacking fails); with no marker line the result is empty.
ScoresByOnlyColon ==
  Called("ParsimonyScores") =>
    LET hits == MarkerLines(content, ParsimonyMarker)
        r    == res["ParsimonyScores"]
    IN  /\ (\A i \in hits : ScoreShaped(content[i])) =>
             Returned(r, [k \in 1..Cardinality(hits) |-> ScoreOn(content[Nth(hits, k)])])
        /\ \A i \in hits :
             ( /\ Colons(content[i]) # 1
               /\ \A j \in hits : j < i => ScoreShaped(content[j]) )
             => Raised(r, UnpackError)

ScoresWitness ==
  /\ content = << ScoreLine(<<"1", "2", "3">>), <<"[", "0", "0", ":", "0", "1", "]", " ", "P", "a", "r", "s", "i", "m", "o", "n", "y", " ", "s", "c", "o", "r", "e", ":", " ", "7">> >>
  /\ Raised(res["ParsimonyScores"], UnpackError)

\* C8: AllRuntimes returns, in file order, one value per line containing
\* "Elapsed time:", the value of the per-line parsing of ElapsedTime; when it
\* returns, ElapsedTime returns its first element; it raises NotFound exactly
\* when no line has the marker, as ElapsedTime does.
RuntimesAgreeWithElapsedTime ==
  Called("AllRuntimes") =>
    LET hits == MarkerLines(content, ElapsedMarker)
        a    == res["AllRuntimes"]
        e    == res["ElapsedTime"]
    IN  /\ a.tag = "ok" =>
             /\ Len(a.val) = Cardinality(hits)
             /\ \A k \in 1..Len(a.val) :
                  Returned(get_raxmlng_time_from_line(content[Nth(hits, k)]), a.val[k])
             /\ Called("ElapsedTime") => Returned(e, a.val[1])
        /\ Raised(a, NoElapsedTime) <=> hits = {}
        /\ Called("ElapsedTime") => (Raised(e, NoElapsedTime) <=> Raised(a, NoElapsedTime))

RuntimesWitness ==
  /\ content = << RestartLine(<<"5", ".", "5">>, <<"9", ".", "2", "5">>), SimpleLine(<<"7">>) >>
  /\ Returned(res["AllRuntimes"], << <<37, 4>>, <<7, 1>> >>)
  /\ Returned(res["ElapsedTime"], <<37, 4>>)

EstimateOn(line) == (CHOOSE e \in ModelEntries : e.txt = line).est

\* C9: ModelParameterEstimates returns for each category the trimmed text
\* after the first colon of the last line starting with its marker, null for
\* a category with no such line; a missing category causes no error (the
\* only error is a marker line without a colon).
ModelEstimatesKeepLast ==
  Called("ModelParameterEstimates") =>
    LET r       == res["ModelParameterEstimates"]
        of(c)   == StartLines(content, ModelMarkers[c])
        noColon == \E c \in 1..3 : \E i \in of(c) : Colons(content[i]) = 0
    IN  /\ r.tag = "raise" <=> noColon
        /\ ~noColon =>
             \A c \in 1..3 :
               r.val[c] = IF of(c) = {} THEN None
                          ELSE Some(EstimateOn(content[Max(of(c))]))

ModelEstimatesWitness ==
  /\ content = << <<"R", "a", "t", "e", " ", "h", "e", "t", "e", "r", "o", "g", "e", "n", "e", "i", "t", "y", ":", " ", "N", "O", "N", "E">>, <<"S", "u", "b", "s", "t", "i", "t", "u", "t", "i", "o", "n", " ", "r", "a", "t", "e", "s", ":", " ", "7">>,
                  <<"R", "a", "t", "e", " ", "h", "e", "t", "e", "r", "o", "g", "e", "n", "e", "i", "t", "y", ":", " ", " ", "G", "A", "M", "M", "A", " ", "(", "4", " ", "c", "a", "t", "s", ")", ",", " ", "a", "l", "p", "h", "a", ":", " ", "0", ".", "5">> >>
  /\ Returned(res["ModelParameterEstimates"],
              << Some(<<"G", "A", "M", "M", "A", " ", "(", "4", " ", "c", "a", "t", "s", ")", ",", " ", "a", "l", "p", "h", "a", ":", " ", "0", ".", "5">>), None, Some(<<"7">>) >>)

\* C10: ElapsedTime either returns the seconds that follow "Elapsed time:" on
\* the first marker line (the total of a restarted line) or raises: a marker
\* line in neither supported shape never yields a number.
ElapsedTimeNeverAnotherNumber ==
  (Called("ElapsedTime") /\ res["ElapsedTime"].tag = "ok") =>
    LET line == content[Min(MarkerLines(content, ElapsedMarker))]
        v    == res["ElapsedTime"].val
    IN  \/ \E n \in TimeNumbers : line = SimpleLine(n.txt) /\ v = n.val
        \/ \E run \in TimeNumbers, total \in TimeNumbers :
             line = RestartLine(run.txt, total.txt) /\ v = total.val

====
